---- MODULE Spec2Model ----
(***************************************************************************)
(* Model of the query engine of the Voter Search tab (src/tab1.py): the    *)
(* Run Query dispatcher, the free-text matcher, the GraphQL-subset parser  *)
(* and the SQL-subset parser, over an in-memory table.                     *)
(*                                                                         *)
(* Text is modelled as a sequence of one-character strings, so that        *)
(* lower-casing, whitespace splitting, regular-expression matching and     *)
(* substring tests are computed character by character as the Python code  *)
(* computes them.                                                          *)
(***************************************************************************)
EXTENDS Integers, Sequences, FiniteSets, TLC

VARIABLES df, query, clicked, calls, out, warnings, seen,
          geo_row, pc, variant, attempt, slept, lookups, tried, coords

\* the search page and its session
page == <<df, query, clicked, calls, out, warnings, seen>>

\* the geocoding script
geo == <<geo_row, pc, variant, attempt, slept, lookups, tried, coords>>

vars == <<page, geo>>

(***************************************************************************)
(* Bounds of the model.                                                    *)
(***************************************************************************)
\* the largest number of rows of a modelled dataset
MaxRows == 2

\* the largest number of submissions followed after the first of a session
MaxRuns == 3

(***************************************************************************)
(* Characters and strings (Python str).                                    *)
(***************************************************************************)
UpperChars == <<"A","B","C","D","E","F","G","H","I","J","K","L","M","N","O","P","Q","R","S","T","U","V","W","X","Y","Z">>
LowerChars == <<"a","b","c","d","e","f","g","h","i","j","k","l","m","n","o","p","q","r","s","t","u","v","w","x","y","z">>
DigitChars == <<"0","1","2","3","4","5","6","7","8","9">>
OtherChars == <<" ","\n","_","{","}","(",")",":","\"","'","%",".",",",";","=","*","-">>

Range(s) == {s[i] : i \in 1..Len(s)}

Chars == Range(UpperChars) \cup Range(LowerChars) \cup Range(DigitChars) \cup Range(OtherChars)

\* str.lower() and str.upper() on one character
LowerOf == [c \in Chars |-> IF \E i \in 1..Len(UpperChars) : UpperChars[i] = c
                            THEN LowerChars[CHOOSE i \in 1..Len(UpperChars) : UpperChars[i] = c]
                            ELSE c]

UpperOf == [c \in Chars |-> IF \E i \in 1..Len(LowerChars) : LowerChars[i] = c
                            THEN UpperChars[CHOOSE i \in 1..Len(LowerChars) : LowerChars[i] = c]
                            ELSE c]

Lower(s) == [i \in 1..Len(s) |-> LowerOf[s[i]]]

Upper(s) == [i \in 1..Len(s) |-> UpperOf[s[i]]]

\* Python's whitespace (str.split, str.strip) and the regular expression class \s
IsSpace(c) == c \in {" ", "\n"}

\* the regular expression class \w
IsWord(c) == c \in Range(UpperChars) \cup Range(LowerChars) \cup Range(DigitChars) \cup {"_"}

\* the regular expression class \d
IsDigit(c) == c \in Range(DigitChars)

\* s[i..j], empty when j < i
Sub(s, i, j) == SubSeq(s, i, j)

\* t occurs in s at position i
OccursAt(s, i, t) == /\ i >= 1
                     /\ i + Len(t) - 1 <= Len(s)
                     /\ \A k \in 1..Len(t) : s[i + k - 1] = t[k]

\* Python `t in s`
Contains(s, t) == \E i \in 1..(Len(s) - Len(t) + 1) : OccursAt(s, i, t)

\* str.startswith, str.endswith
StartsWith(s, t) == OccursAt(s, 1, t)

EndsWith(s, t) == Len(t) <= Len(s) /\ OccursAt(s, Len(s) - Len(t) + 1, t)

\* str.strip(): leading and trailing whitespace removed
LStripFrom(s, i) == IF \E k \in i..Len(s) : ~IsSpace(s[k])
                    THEN CHOOSE k \in i..Len(s) : ~IsSpace(s[k]) /\ \A m \in i..(k - 1) : IsSpace(s[m])
                    ELSE Len(s) + 1

RStripTo(s) == IF \E k \in 1..Len(s) : ~IsSpace(s[k])
               THEN CHOOSE k \in 1..Len(s) : ~IsSpace(s[k]) /\ \A m \in (k + 1)..Len(s) : IsSpace(s[m])
               ELSE 0

Strip(s) == Sub(s, LStripFrom(s, 1), RStripTo(s))

\* str.split(): the maximal runs of non-whitespace characters, in order
RECURSIVE SplitFrom(_, _)
SplitFrom(s, i) ==
    LET a == LStripFrom(s, i)
    IN  IF a > Len(s) THEN <<>>
        ELSE LET b == IF \E k \in a..Len(s) : IsSpace(s[k])
                      THEN (CHOOSE k \in a..Len(s) : IsSpace(s[k]) /\ \A m \in a..(k - 1) : ~IsSpace(s[m])) - 1
                      ELSE Len(s)
             IN  <<Sub(s, a, b)>> \o SplitFrom(s, b + 1)

Split(s) == SplitFrom(s, 1)

\* sep.join(parts)
RECURSIVE Join(_, _)
Join(sep, parts) == IF Len(parts) = 0 THEN <<>>
                    ELSE IF Len(parts) = 1 THEN parts[1]
                    ELSE parts[1] \o sep \o Join(sep, Tail(parts))

\* " ".join(query.split()): whitespace runs collapsed to one space, ends trimmed
Normalize(s) == Join(<<" ">>, Split(s))

(***************************************************************************)
(* The dataset: the table read from macrodata.csv, restricted to three of  *)
(* its columns.  A row is a tuple of cells aligned with Columns; a table   *)
(* is a sequence of rows, and a filtered table is the increasing sequence  *)
(* of the indices of the rows kept (pandas keeps the index labels).        *)
(***************************************************************************)
colFirstName == <<"F","i","r","s","t"," ","N","a","m","e"," ","-","M","y","D","a","t","a">>
colCity == <<"C","i","t","y"," ","-","M","y","D","a","t","a">>
colPhoneType == <<"P","h","o","n","e"," ","T","y","p","e">>

Columns == <<colFirstName, colCity, colPhoneType>>

RowPool == { <<<<"J","o","h","n">>, <<"M","e","s","a">>, <<"C","e","l","l">>>>,
             <<<<"j","o">>, <<"a",".","c">>, <<"L","a","n","d">>>>,
             <<<<"A","n","n">>, <<"A","B","C">>, <<"c","e","l","l">>>> }

RECURSIVE SeqsUpTo(_, _)
SeqsUpTo(S, n) == IF n = 0 THEN {<<>>}
                  ELSE LET P == SeqsUpTo(S, n - 1)
                       IN  P \cup {Append(p, x) : p \in {r \in P : Len(r) = n - 1}, x \in S}

Datasets == SeqsUpTo(RowPool, MaxRows)

\* df[col] : the cells of one column, by row
ColIndex(col) == CHOOSE i \in 1..Len(Columns) : Columns[i] = col

Cell(d, r, col) == d[r][ColIndex(col)]

\* df[mask] : the indices of the rows whose mask is true, in row order
RECURSIVE KeepFrom(_, _, _)
KeepFrom(mask, i, n) == IF i > n THEN <<>>
                        ELSE (IF mask[i] THEN <<i>> ELSE <<>>) \o KeepFrom(mask, i + 1, n)

Keep(d, mask) == KeepFrom(mask, 1, Len(d))

(***************************************************************************)
(* Free-text search.                                                       *)
(***************************************************************************)
\* " ".join(row.astype(str)).lower()
RowText(row) == Lower(Join(<<" ">>, row))

\* filter_data_by_query with any() where the code has all()
filter_data_by_query_AnyToken(d, q) ==
    LET tokens == Split(Lower(q))
    IN  Keep(d, [r \in 1..Len(d) |->
                    \E t \in 1..Len(tokens) : Contains(RowText(d[r]), tokens[t])])

filter_data_by_query(d, q) ==
    LET tokens == Split(Lower(q))
    IN  Keep(d, [r \in 1..Len(d) |->
                    \A t \in 1..Len(tokens) : Contains(RowText(d[r]), tokens[t])])

(***************************************************************************)
(* Regular-expression pieces shared by the two structured parsers.  Both   *)
(* parsers match against the normalized query.                             *)
(***************************************************************************)
\* \s* (greedy): the first position at or after i that holds no whitespace
SkipSpaces(s, i) == LStripFrom(s, i)

\* lits[1] \s* lits[2] \s* ... \s* lits[n] matched at position i: the position
\* after the match, 0 when it does not match
RECURSIVE MatchLits(_, _, _)
MatchLits(s, i, lits) ==
    IF Len(lits) = 0 THEN i
    ELSE IF ~OccursAt(s, i, lits[1]) THEN 0
    ELSE IF Len(lits) = 1 THEN i + Len(lits[1])
    ELSE MatchLits(s, SkipSpaces(s, i + Len(lits[1])), Tail(lits))

\* \w+ (greedy) at position i: the position of the last word character of the run
\* starting at i; i - 1 when s[i] is no word character
WordEnd(s, i) == IF \E k \in i..Len(s) : ~IsWord(s[k])
                 THEN (CHOOSE k \in i..Len(s) : ~IsWord(s[k]) /\ \A m \in i..(k - 1) : IsWord(s[m])) - 1
                 ELSE Len(s)

\* the first position at or after i that holds character c, 0 when there is none
FindChar(s, i, c) == IF \E k \in i..Len(s) : s[k] = c
                     THEN CHOOSE k \in i..Len(s) : s[k] = c /\ \A m \in i..(k - 1) : s[m] # c
                     ELSE 0

\* the least element of a non-empty set of integers
Least(S) == CHOOSE x \in S : \A y \in S : x <= y

\* dict.get(key), with None modelled as the empty string (both are falsy)
DictGet(dict, key) == IF \E i \in 1..Len(dict) : dict[i][1] = key
                      THEN dict[CHOOSE i \in 1..Len(dict) : dict[i][1] = key][2]
                      ELSE <<>>

\* str.replace(c, "")
RECURSIVE Remove(_, _)
Remove(s, c) == IF Len(s) = 0 THEN <<>>
                ELSE (IF s[1] = c THEN <<>> ELSE <<s[1]>>) \o Remove(Tail(s), c)

\* {c.lower().replace(" ", "").replace("-", ""): c for c in df.columns}
NormalizedColumns == [i \in 1..Len(Columns) |->
                        <<Remove(Remove(Lower(Columns[i]), " "), "-"), Columns[i]>>]

\* mask &= ... : the conjunction of row masks, starting from all-true
RECURSIVE AndMasks(_, _)
AndMasks(d, masks) == IF Len(masks) = 0 THEN [r \in 1..Len(d) |-> TRUE]
                      ELSE LET rest == AndMasks(d, Tail(masks))
                           IN  [r \in 1..Len(d) |-> masks[1][r] /\ rest[r]]

\* the entries of a sequence that are not the empty string, in order
RECURSIVE NonEmpty(_)
NonEmpty(xs) == IF Len(xs) = 0 THEN <<>>
                ELSE (IF xs[1] = <<>> THEN <<>> ELSE <<xs[1]>>) \o NonEmpty(Tail(xs))

\* what a parser hands back: it raised msg, or it returned (filt, sel_fields),
\* having issued the warnings
Raised(msg, warned) == [raised |-> TRUE, msg |-> msg, filt |-> <<>>, sel |-> <<>>, warned |-> warned]

Returned(filt, sel, warned) == [raised |-> FALSE, msg |-> "", filt |-> filt, sel |-> sel, warned |-> warned]

(***************************************************************************)
(* The GraphQL-subset parser.                                              *)
(***************************************************************************)
\* the field alias table of the GraphQL parser (the entries of the modelled columns)
gql2df == << <<<<"f","i","r","s","t","N","a","m","e">>, colFirstName>>,
             <<<<"c","i","t","y">>, colCity>>,
             <<<<"p","h","o","n","e","T","y","p","e">>, colPhoneType>> >>

\* re.search(r'people\s*\(\s*where\s*:\s*{(.*?)}\s*\)\s*{(.*?)}', q): the leftmost
\* start, then the shortest first group, then the shortest second group
GqlHead(q, i) == MatchLits(q, i, <<<<"p","e","o","p","l","e">>, <<"(">>, <<"w","h","e","r","e">>, <<":">>, <<"{">>>>)

GqlMid(q, b) == MatchLits(q, b, <<<<"}">>, <<")">>, <<"{">>>>)

GqlGroupEnds(q, a) == {b \in a..Len(q) : GqlMid(q, b) > 0 /\ FindChar(q, GqlMid(q, b), "}") > 0}

GqlStarts(q) == {i \in 1..Len(q) : GqlHead(q, i) > 0 /\ GqlGroupEnds(q, GqlHead(q, i)) # {}}

GqlSearch(q) ==
    IF GqlStarts(q) = {} THEN [found |-> FALSE, cond |-> <<>>, sel |-> <<>>]
    ELSE LET a == GqlHead(q, Least(GqlStarts(q)))
             b == Least(GqlGroupEnds(q, a))
             c == GqlMid(q, b)
         IN  [found |-> TRUE, cond |-> Sub(q, a, b - 1), sel |-> Sub(q, c, FindChar(q, c, "}") - 1)]

\* (\w+)\s*:\s*"([^"]+)" matched at position i of s: the position after the match
\* (0 when it does not match), the field and the value
GqlCondAt(s, i) ==
    LET e  == WordEnd(s, i)
        p  == SkipSpaces(s, e + 1)
        p2 == SkipSpaces(s, p + 1)
        z  == FindChar(s, p2 + 1, "\"")
    IN  IF /\ i <= Len(s) /\ e >= i
           /\ p <= Len(s) /\ s[p] = ":"
           /\ p2 <= Len(s) /\ s[p2] = "\""
           /\ z > p2 + 1
        THEN [end |-> z + 1, field |-> Sub(s, i, e), value |-> Sub(s, p2 + 1, z - 1)]
        ELSE [end |-> 0, field |-> <<>>, value |-> <<>>]

\* re.findall: the non-overlapping matches, scanning left to right from pos
RECURSIVE GqlFindAll(_, _)
GqlFindAll(s, pos) ==
    LET starts == {i \in pos..Len(s) : GqlCondAt(s, i).end > 0}
    IN  IF starts = {} THEN <<>>
        ELSE LET m == GqlCondAt(s, Least(starts))
             IN  <<m>> \o GqlFindAll(s, m.end)

kStartsWith == <<"_","s","t","a","r","t","s","W","i","t","h">>

\* the (field, op, value) triple of one condition
GqlParsed(m) == IF EndsWith(m.field, kStartsWith)
                THEN [field |-> Sub(m.field, 1, Len(m.field) - Len(kStartsWith)), op |-> "startsWith", value |-> m.value]
                ELSE [field |-> m.field, op |-> "=", value |-> m.value]

\* gql2df.get(field) or {normalized column: column}.get(field.lower())
GqlResolve(field) == IF DictGet(gql2df, field) # <<>> THEN DictGet(gql2df, field)
                     ELSE DictGet(NormalizedColumns, Lower(field))

\* the row mask of one condition; an unresolved field imposes nothing
GqlCondMask(d, c) ==
    LET df_field == GqlResolve(c.field)
    IN  [r \in 1..Len(d) |->
            IF df_field = <<>> THEN TRUE
            ELSE IF c.op = "=" THEN Lower(Cell(d, r, df_field)) = Lower(c.value)
            ELSE StartsWith(Lower(Cell(d, r, df_field)), Lower(c.value))]

\* GqlSelFields without the fall-back to all columns
GqlSelFields_NoFallback(sel_str) ==
    LET selected == Split(sel_str)
    IN  NonEmpty([i \in 1..Len(selected) |-> GqlResolve(selected[i])])

\* the selection: the resolved fields in the order asked, all columns when none resolves
GqlSelFields(sel_str) ==
    LET selected == Split(sel_str)
        resolved == NonEmpty([i \in 1..Len(selected) |-> GqlResolve(selected[i])])
    IN  IF resolved = <<>> THEN Columns ELSE resolved

parse_graphql_query(qry, d) ==
    LET q == Normalize(qry)
        m == GqlSearch(q)
    IN  IF ~m.found THEN Raised("GraphQL query format not recognized.", <<>>)
        ELSE LET conds  == GqlFindAll(Strip(m.cond), 1)
                 parsed == [i \in 1..Len(conds) |-> GqlParsed(conds[i])]
                 mask   == AndMasks(d, [i \in 1..Len(parsed) |-> GqlCondMask(d, parsed[i])])
             IN  Returned(Keep(d, mask), GqlSelFields(Strip(m.sel)), <<>>)

(***************************************************************************)
(* The SQL-subset parser.                                                  *)
(***************************************************************************)
\* the field alias table of the SQL parser (the entries of the modelled columns)
sql2df == << <<<<"f","i","r","s","t","n","a","m","e">>, colFirstName>>,
             <<<<"c","i","t","y">>, colCity>>,
             <<<<"p","h","o","n","e","t","y","p","e">>, colPhoneType>> >>

\* a literal matched ignoring case (re.IGNORECASE) at position i
OccursAtCI(s, i, lit) == /\ i >= 1
                         /\ i + Len(lit) - 1 <= Len(s)
                         /\ \A k \in 1..Len(lit) : LowerOf[s[i + k - 1]] = LowerOf[lit[k]]

\* \s+ (greedy) at position i: the position after the whitespace, 0 when there is none
Spaces1(s, i) == IF i >= 1 /\ i <= Len(s) /\ IsSpace(s[i]) THEN SkipSpaces(s, i) ELSE 0

\* \s+KEYWORD\s+ at position i, ignoring case: the position after it, 0 when it
\* does not match
SqlKeyword(s, i, kw) ==
    LET a == Spaces1(s, i)
    IN  IF a > 0 /\ OccursAtCI(s, a, kw) THEN Spaces1(s, a + Len(kw)) ELSE 0

\* ;?\s*$ at position i
SqlTailEnd(s, i) == SkipSpaces(s, IF i <= Len(s) /\ s[i] = ";" THEN i + 1 ELSE i) > Len(s)

\* \d+ (greedy) at position i: the position of the last digit of the run, i - 1 when
\* s[i] is no digit
DigitsEnd(s, i) == IF \E k \in i..Len(s) : ~IsDigit(s[k])
                   THEN (CHOOSE k \in i..Len(s) : ~IsDigit(s[k]) /\ \A m \in i..(k - 1) : IsDigit(s[m])) - 1
                   ELSE Len(s)

\* (?:\s+LIMIT\s+(\d+))?;?\s*$ at position i: whether it matches, and the digits of
\* the third group (empty when the LIMIT group took no part)
SqlLimitTail(s, i) ==
    LET At(a, e) == IF a > 0 /\ e >= a /\ SqlTailEnd(s, e + 1)
                    THEN [ok |-> TRUE, limit |-> Sub(s, a, e)]
                    ELSE [ok |-> SqlTailEnd(s, i), limit |-> <<>>]
        From(a)  == At(a, DigitsEnd(s, a))
    IN  From(SqlKeyword(s, i, <<"L","I","M","I","T">>))

\* \s+FROM\s+people at position i, ignoring case: the position after it, 0 when it
\* does not match
SqlFrom(s, i) ==
    LET a == SqlKeyword(s, i, <<"F","R","O","M">>)
    IN  IF a > 0 /\ OccursAtCI(s, a, <<"p","e","o","p","l","e">>) THEN a + 6 ELSE 0

\* (?:\s+WHERE\s+(.+?))?(?:\s+LIMIT\s+(\d+))?;?\s*$ at position p, the rest of the
\* pattern after `people`: the WHERE group is taken when the rest matches with it,
\* and then with the shortest second group with which the rest matches
SqlRest(s, p) ==
    LET Plain(t)      == [ok |-> t.ok, where |-> <<>>, limit |-> t.limit]
        With(w, k)    == [ok |-> TRUE, where |-> Sub(s, w, k), limit |-> SqlLimitTail(s, k + 1).limit]
        Pick(w, ends) == IF ends # {} THEN With(w, Least(ends)) ELSE Plain(SqlLimitTail(s, p))
        From(w)       == Pick(w, IF w = 0 THEN {} ELSE {k \in w..Len(s) : SqlLimitTail(s, k + 1).ok})
    IN  From(SqlKeyword(s, p, <<"W","H","E","R","E">>))

\* SELECT\s+ at position i, ignoring case: the position after it, 0 when it does
\* not match
SqlSelect(s, i) == IF OccursAtCI(s, i, <<"S","E","L","E","C","T">>) THEN Spaces1(s, i + 6) ELSE 0

\* the ends of a first group (.+?) starting at c with which the rest matches
SqlColsEnds(s, c) == {j \in c..Len(s) : SqlFrom(s, j + 1) > 0 /\ SqlRest(s, SqlFrom(s, j + 1)).ok}

SqlStarts(s) == {i \in 1..Len(s) : SqlSelect(s, i) > 0 /\ SqlColsEnds(s, SqlSelect(s, i)) # {}}

\* re.search(r"SELECT\s+(.+?)\s+FROM\s+people(?:\s+WHERE\s+(.+?))?(?:\s+LIMIT\s+(\d+))?;?\s*$",
\* q, re.IGNORECASE): the leftmost start, the shortest first group, the WHERE group
\* taken when it can be and then as short as it can be, the LIMIT group taken when
\* it can be
SqlSearch(q) ==
    LET Found(c, j, r) == [found |-> TRUE, cols |-> Sub(q, c, j), where |-> r.where, limit |-> r.limit]
        AtEnd(c, j)    == Found(c, j, SqlRest(q, SqlFrom(q, j + 1)))
        AtStart(c)     == AtEnd(c, Least(SqlColsEnds(q, c)))
        Among(starts)  == IF starts = {} THEN [found |-> FALSE, cols |-> <<>>, where |-> <<>>, limit |-> <<>>]
                          ELSE AtStart(SqlSelect(q, Least(starts)))
    IN  Among(SqlStarts(q))

\* str.split(c): the pieces between the occurrences of c, empty pieces kept
RECURSIVE SplitOn(_, _)
SplitOn(s, c) == LET i == FindChar(s, 1, c)
                 IN  IF i = 0 THEN <<s>>
                     ELSE <<Sub(s, 1, i - 1)>> \o SplitOn(Sub(s, i + 1, Len(s)), c)

\* sql2df.get(col.lower()) or {normalized column: column}.get(col.lower())
SqlResolve(field) == IF DictGet(sql2df, Lower(field)) # <<>> THEN DictGet(sql2df, Lower(field))
                     ELSE DictGet(NormalizedColumns, Lower(field))

\* the selection: all columns for *, else the resolved names in the order asked,
\* all columns when none resolves
SqlSelFields(cols_str) ==
    IF cols_str = <<"*">> THEN Columns
    ELSE LET cols     == SplitOn(cols_str, ",")
             resolved == NonEmpty([i \in 1..Len(cols) |-> SqlResolve(Strip(cols[i]))])
         IN  IF resolved = <<>> THEN Columns ELSE resolved

\* re.split(r'\s+AND\s+', where_str, flags=re.IGNORECASE)
RECURSIVE SqlSplitAnd(_)
SqlSplitAnd(s) ==
    LET seps == {i \in 1..Len(s) : SqlKeyword(s, i, <<"A","N","D">>) > 0}
    IN  IF seps = {} THEN <<s>>
        ELSE LET i == Least(seps)
             IN  <<Sub(s, 1, i - 1)>> \o SqlSplitAnd(Sub(s, SqlKeyword(s, i, <<"A","N","D">>), Len(s)))

\* (=|LIKE)\s*'([^']+)' at position p, ignoring case: whether it matches, the
\* operator as written and the value
SqlOpValue(s, p) ==
    LET o  == IF OccursAt(s, p, <<"=">>) THEN 1 ELSE IF OccursAtCI(s, p, <<"L","I","K","E">>) THEN 4 ELSE 0
        p2 == SkipSpaces(s, p + o)
        z  == FindChar(s, p2 + 1, "'")
    IN  IF o > 0 /\ p2 <= Len(s) /\ s[p2] = "'" /\ z > p2 + 1
        THEN [ok |-> TRUE, op |-> Sub(s, p, p + o - 1), value |-> Sub(s, p2 + 1, z - 1)]
        ELSE [ok |-> FALSE, op |-> <<>>, value |-> <<>>]

\* re.match(r"(\w+)\s*(=|LIKE)\s*'([^']+)'", cond, re.IGNORECASE): anchored at the
\* start of the segment only; \w+ takes the longest run of word characters with
\* which the rest matches
SqlCondMatch(cond) ==
    LET Found(e, m)  == [ok |-> TRUE, field |-> Sub(cond, 1, e), op |-> m.op, value |-> m.value]
        AtEnd(e)     == Found(e, SqlOpValue(cond, SkipSpaces(cond, e + 1)))
        Among(ends)  == IF ends = {} THEN [ok |-> FALSE, field |-> <<>>, op |-> <<>>, value |-> <<>>]
                        ELSE AtEnd(CHOOSE x \in ends : \A y \in ends : y <= x)
    IN  Among({e \in 1..WordEnd(cond, 1) : SqlOpValue(cond, SkipSpaces(cond, e + 1)).ok})

\* str.strip("%"), str.rstrip("%"), str.lstrip("%")
RECURSIVE LStripChar(_, _)
LStripChar(s, c) == IF Len(s) > 0 /\ s[1] = c THEN LStripChar(Tail(s), c) ELSE s

RECURSIVE RStripChar(_, _)
RStripChar(s, c) == IF Len(s) > 0 /\ s[Len(s)] = c THEN RStripChar(Sub(s, 1, Len(s) - 1), c) ELSE s

StripChar(s, c) == RStripChar(LStripChar(s, c), c)

\* pandas Series.str.contains(pat) takes pat as a regular expression (regex=True is
\* its default).  The patterns of the model are made of literal characters, of `.`
\* (any character but a newline) and of `(`, which without its `)` makes
\* re.compile raise.
RegexRaises(pat) == \E i \in 1..Len(pat) : pat[i] = "(" /\ \A k \in i..Len(pat) : pat[k] # ")"

RegexAt(s, i, pat) == /\ i + Len(pat) - 1 <= Len(s)
                      /\ \A k \in 1..Len(pat) :
                            IF pat[k] = "." THEN s[i + k - 1] # "\n" ELSE s[i + k - 1] = pat[k]

RegexSearch(s, pat) == \E i \in 1..(Len(s) - Len(pat) + 1) : RegexAt(s, i, pat)

\* whether evaluating a matched condition raises
SqlCondRaises(m) ==
    /\ SqlResolve(m.field) # <<>>
    /\ m.op # <<"=">>
    /\ Upper(m.op) = <<"L","I","K","E">>
    /\ StartsWith(Lower(m.value), <<"%">>) /\ EndsWith(Lower(m.value), <<"%">>)
    /\ RegexRaises(StripChar(Lower(m.value), "%"))

\* the test one matched condition puts on a cell
SqlCellTest(cell, m) ==
    LET text == Lower(cell)
        val  == Lower(m.value)
    IN  IF m.op = <<"=">> THEN text = val
        ELSE IF Upper(m.op) = <<"L","I","K","E">>
        THEN IF StartsWith(val, <<"%">>) /\ EndsWith(val, <<"%">>) THEN RegexSearch(text, StripChar(val, "%"))
             ELSE IF EndsWith(val, <<"%">>) THEN StartsWith(text, RStripChar(val, "%"))
             ELSE IF StartsWith(val, <<"%">>) THEN EndsWith(text, LStripChar(val, "%"))
             ELSE text = val
        ELSE TRUE

\* the row mask of one segment of the WHERE clause, m being what re.match gave for
\* it; a segment that does not match, or whose field does not resolve, imposes nothing
SqlCondMask(d, m) ==
    LET Test(df_field) == [r \in 1..Len(d) |->
                             IF ~m.ok \/ df_field = <<>> THEN TRUE
                             ELSE SqlCellTest(Cell(d, r, df_field), m)]
    IN  Test(SqlResolve(m.field))

\* st.warning(f"Invalid condition: {cond}") for the segments that do not match
RECURSIVE SqlCondWarnings(_, _)
SqlCondWarnings(conds, ms) ==
    IF Len(conds) = 0 THEN <<>>
    ELSE (IF ms[1].ok THEN <<>> ELSE << [kind |-> "Invalid condition", text |-> conds[1]] >>)
         \o SqlCondWarnings(Tail(conds), Tail(ms))

\* int(limit_str): the value of a run of digits, and whether int() raises
RECURSIVE ParseInt(_)
ParseInt(s) == IF Len(s) = 0 THEN 0
               ELSE LET d == CHOOSE v \in 0..9 : DigitChars[v + 1] = s[Len(s)]
                    IN  10 * ParseInt(Sub(s, 1, Len(s) - 1)) + d

IntRaises(s) == \E i \in 1..Len(s) : ~IsDigit(s[i])

\* DataFrame.head(n), n >= 0
Head_n(filt, n) == Sub(filt, 1, IF n < Len(filt) THEN n ELSE Len(filt))

\* the LIMIT clause applied to the filtered rows
SqlLimit(result_df, sel_fields, warned, limit_str) ==
    IF limit_str = <<>> THEN Returned(result_df, sel_fields, warned)
    ELSE IF IntRaises(limit_str)
    THEN Returned(result_df, sel_fields,
                  Append(warned, [kind |-> "Invalid limit value, ignoring limit.", text |-> <<>>]))
    ELSE Returned(Head_n(result_df, ParseInt(limit_str)), sel_fields, warned)

\* the WHERE clause evaluated segment by segment (ms: what re.match gave for each
\* segment), then the LIMIT clause
SqlWhere(d, sel_fields, conds, ms, limit_str) ==
    LET Run(raising) ==
            IF raising # {}
            THEN Raised("re.error", SqlCondWarnings(Sub(conds, 1, Least(raising)), Sub(ms, 1, Least(raising))))
            ELSE SqlLimit(Keep(d, AndMasks(d, [i \in 1..Len(ms) |-> SqlCondMask(d, ms[i])])),
                          sel_fields, SqlCondWarnings(conds, ms), limit_str)
    IN  Run({i \in 1..Len(ms) : ms[i].ok /\ SqlCondRaises(ms[i])})

\* the segments of the WHERE clause
SqlConds(where_str) == IF where_str # <<>> THEN SqlSplitAnd(where_str) ELSE <<>>

\* parse_sql_query answering an unrecognized query with the whole table
parse_sql_query_Lenient(qry, d) ==
    LET Segments(sel_fields, conds, limit_str) ==
            SqlWhere(d, sel_fields, conds, [i \in 1..Len(conds) |-> SqlCondMatch(conds[i])], limit_str)
        Matched(m) ==
            IF ~m.found THEN Returned([r \in 1..Len(d) |-> r], Columns, <<>>)
            ELSE Segments(SqlSelFields(Strip(m.cols)), SqlConds(Strip(m.where)), Strip(m.limit))
    IN  Matched(SqlSearch(Normalize(qry)))

parse_sql_query(qry, d) ==
    LET Segments(sel_fields, conds, limit_str) ==
            SqlWhere(d, sel_fields, conds, [i \in 1..Len(conds) |-> SqlCondMatch(conds[i])], limit_str)
        Matched(m) ==
            IF ~m.found THEN Raised("SQL query format not recognized.", <<>>)
            ELSE Segments(SqlSelFields(Strip(m.cols)), SqlConds(Strip(m.where)), Strip(m.limit))
    IN  Matched(SqlSearch(Normalize(qry)))

(***************************************************************************)
(* The queries typed into the text area.                                   *)
(***************************************************************************)
\* the decimal digits of n >= 0
RECURSIVE IntToStr(_)
IntToStr(n) == IF n < 10 THEN <<DigitChars[n + 1]>>
               ELSE IntToStr(n \div 10) \o <<DigitChars[(n % 10) + 1]>>

\* the largest LIMIT of a modelled query
MaxLimit == 3

EmptyQueries == {<<>>, <<" ">>, <<"\n"," ">>}

FreeQueries ==
    {<<"j","o","h","n">>, <<"J","o","h","n"," ","m","e","s","a">>, <<"m","e","s","a"," "," ","j","o","h","n">>, <<" ","c","e","l","l","\n","j","o">>, <<"z","z","z">>, <<"a",".","c">>, <<"n"," ","m">>, <<"L","a","n","d"," ","A","B","C"," ">>,
     <<"J","o","h","n"," ","s","e","l","e","c","t">>, <<"x","{">>, <<"j","o"," ","j","o"," ","c","e","l","l">>}

GqlConds ==
    {<<>>, <<"f","i","r","s","t","N","a","m","e",":"," ","\"","J","o","h","n","\"">>, <<"F","I","R","S","T","N","A","M","E",":"," ","\"","J","o","h","n","\"">>, <<"f","i","r","s","t","n","a","m","e","m","y","d","a","t","a",":","\"","J","O","H","N","\"">>,
     <<"c","i","t","y","_","s","t","a","r","t","s","W","i","t","h",":"," ","\"","m","e","\"">>, <<"f","i","r","s","t","N","a","m","e",":"," ","\"","j","o","h","n","\"",","," ","c","i","t","y",":"," ","\"","m","e","s","a","\"">>, <<"b","o","g","u","s",":"," ","\"","x","\"">>,
     <<"p","h","o","n","e","t","y","p","e",":"," ","\"","c","e","l","l","\"">>, <<"c","i","t","y",":"," ","\"","M","e","s","a","\"","\n"," ","p","h","o","n","e","T","y","p","e","_","s","t","a","r","t","s","W","i","t","h",":"," ","\"","C","\"">>,
     <<"b","o","g","u","s","_","s","t","a","r","t","s","W","i","t","h",":"," ","\"","x","\""," ","c","i","t","y"," ",":"," ","\"","a","b","c","\"">>, <<"C","I","T","Y","_","s","t","a","r","t","s","W","i","t","h",":"," ","\"","a","\"">>,
     <<"c","i","t","y",":"," ","\"","\"">>, <<"f","i","r","s","t","N","a","m","e",":"," ","\"","J","o","h","n","\"",","," ","c","i","t","y",":"," ","\"","\"">>}

GqlSels ==
    {<<>>, <<"f","i","r","s","t","N","a","m","e"," ","c","i","t","y">>, <<"c","i","t","y","\n","f","i","r","s","t","N","a","m","e">>, <<"b","o","g","u","s">>, <<"f","i","r","s","t","N","a","m","e"," ","b","o","g","u","s">>, <<"F","I","R","S","T","N","A","M","E">>,
     <<"P","H","O","N","E","T","Y","P","E"," ","c","i","t","y">>, <<"c","i","t","y","m","y","d","a","t","a">>, <<"C","i","t","y">>}

GqlQueries ==
    {<<"{"," ","p","e","o","p","l","e","(","w","h","e","r","e",":"," ","{">> \o c \o <<"}",")"," ","{","f","i","r","s","t","N","a","m","e"," ","c","i","t","y","}"," ","}">> : c \in GqlConds}
    \cup {<<"{"," ","p","e","o","p","l","e","(","w","h","e","r","e",":"," ","{","f","i","r","s","t","N","a","m","e",":"," ","\"","J","o","h","n","\"","}",")"," ","{">> \o f \o <<"}"," ","}">> : f \in GqlSels}
    \cup {<<"{">>, <<"{"," ","p","e","o","p","l","e"," ","}">>, <<"{"," ","p","e","r","s","o","n","s","(","w","h","e","r","e",":"," ","{","c","i","t","y",":"," ","\"","M","e","s","a","\"","}",")"," ","{","c","i","t","y","}"," ","}">>,
          <<"\n"," ","{","\n"," ","p","e","o","p","l","e"," ","("," ","w","h","e","r","e"," ",":"," ","{"," ","c","i","t","y"," ",":"," ","\"","m","e","s","a","\""," ","}"," ",")"," ","{"," ","c","i","t","y"," ","}","\n","}">>,
          <<"{","p","e","o","p","l","e","(","w","h","e","r","e",":","{","c","i","t","y",":","\"","M","e","s","a","\"","}",")","{","c","i","t","y","}","}">>, <<"{"," ","P","e","o","p","l","e","(","w","h","e","r","e",":"," ","{","}",")"," ","{","}"," ","}">>,
          <<"{"," ","p","e","o","p","l","e","(","w","h","e","r","e",":"," ","{","c","i","t","y",":"," ","\"","M","e","s","a","\"","}",")"," ","{","c","i","t","y"," ","}">>}

SqlCols ==
    {<<"*">>, <<"f","i","r","s","t","N","a","m","e">>, <<"f","i","r","s","t","N","a","m","e",","," ","c","i","t","y">>, <<"c","i","t","y",",","f","i","r","s","t","N","a","m","e">>, <<"b","o","g","u","s">>, <<"b","o","g","u","s",","," ","c","i","t","y">>,
     <<"F","I","R","S","T","N","A","M","E">>, <<"f","i","r","s","t","n","a","m","e","m","y","d","a","t","a">>, <<"F","i","r","s","t"," ","N","a","m","e"," ","-","M","y","D","a","t","a">>, <<"P","h","o","n","e"," ","T","y","p","e",","," ","P","h","o","n","e","T","y","p","e">>}

SqlWheres ==
    {<<>>, <<" ","W","H","E","R","E"," ","c","i","t","y"," ","="," ","'","M","e","s","a","'">>, <<" ","w","h","e","r","e"," ","C","i","t","y"," ","l","i","k","e"," ","'","%","E","S","%","'">>, <<" ","W","H","E","R","E"," ","c","i","t","y"," ","L","I","K","E"," ","'","m","e","%","'">>,
     <<" ","W","H","E","R","E"," ","c","i","t","y"," ","L","I","K","E"," ","'","%","s","a","'">>, <<" ","W","H","E","R","E"," ","c","i","t","y"," ","L","I","K","E"," ","'","m","e","s","a","'">>, <<" ","W","H","E","R","E"," ","c","i","t","y"," ","L","I","K","E"," ","'","%","a",".","c","%","'">>,
     <<" ","W","H","E","R","E"," ","c","i","t","y"," ","L","I","K","E"," ","'","%","(","%","'">>, <<" ","W","H","E","R","E"," ","c","i","t","y"," ","L","I","K","E"," ","'","%","%","a","%","'">>, <<" ","W","H","E","R","E"," ","c","i","t","y"," ","L","I","K","E"," ","'","%","'">>,
     <<" ","W","H","E","R","E"," ","c","i","t","y"," ","="," ","'","M","e","s","a","'"," ","A","N","D"," ","b","a","d","c","o","n","d","i","t","i","o","n">>, <<" ","W","H","E","R","E"," ","b","a","d","c","o","n","d","i","t","i","o","n"," ","a","n","d"," ","f","i","r","s","t","N","a","m","e"," ","="," ","'","j","o","h","n","'">>,
     <<" ","W","H","E","R","E"," ","c","i","t","y"," ","="," ","'","M","e","s","a","'"," ","j","u","n","k">>, <<" ","W","H","E","R","E"," ","b","o","g","u","s"," ","="," ","'","x","'"," ","A","N","D"," ","c","i","t","y"," ","="," ","'","m","e","s","a","'">>,
     <<" ","W","H","E","R","E"," ","f","i","r","s","t","n","a","m","e"," ","l","i","k","e"," ","'","j","o","%","'"," ","A","N","D"," ","p","h","o","n","e","t","y","p","e"," ","="," ","'","c","e","l","l","'">>, <<" ","W","H","E","R","E"," ","c","i","t","y","L","I","K","E","'","m","e","s","a","'">>,
     <<" ","W","H","E","R","E"," ","b","a","d"," ","A","N","D"," ","c","i","t","y"," ","L","I","K","E"," ","'","%","(","%","'"," ","A","N","D"," ","w","o","r","s","e">>, <<" ","W","H","E","R","E"," ","c","i","t","y"," ","="," ","'","a"," ","A","N","D"," ","b","'">>}

SqlLimits ==
    {<<" ","L","I","M","I","T"," ","a","b","c">>, <<" ","L","I","M","I","T"," ","1","x">>, <<" ","l","i","m","i","t"," ","0","1">>} \cup {<<" ","L","I","M","I","T"," ">> \o IntToStr(n) : n \in 0..MaxLimit}

SqlLimitedWheres ==
    {<<>>, <<" ","W","H","E","R","E"," ","c","i","t","y"," ","="," ","'","M","e","s","a","'">>, <<" ","W","H","E","R","E"," ","c","i","t","y"," ","="," ","'","M","e","s","a","'"," ","A","N","D"," ","b","a","d","c","o","n","d","i","t","i","o","n">>,
     <<" ","W","H","E","R","E"," ","c","i","t","y"," ","L","I","K","E"," ","'","%","(","%","'">>, <<" ","W","H","E","R","E"," ","f","i","r","s","t","n","a","m","e"," ","l","i","k","e"," ","'","j","o","%","'"," ","A","N","D"," ","p","h","o","n","e","t","y","p","e"," ","="," ","'","c","e","l","l","'">>}

SqlQueries ==
    {<<"S","E","L","E","C","T"," ">> \o c \o <<" ","F","R","O","M"," ","p","e","o","p","l","e">> \o w \o <<";">> : c \in SqlCols, w \in {<<>>, <<" ","W","H","E","R","E"," ","c","i","t","y"," ","="," ","'","M","e","s","a","'">>}}
    \cup {<<"s","e","l","e","c","t"," ","*"," ","f","r","o","m"," ","p","e","o","p","l","e">> \o w \o e : w \in SqlWheres, e \in {<<>>, <<";">>}}
    \cup {<<"s","e","l","e","c","t"," ","c","i","t","y"," ","f","r","o","m"," ","p","e","o","p","l","e">> \o w \o l : w \in SqlLimitedWheres, l \in SqlLimits}
    \cup {<<"S","E","L","E","C","T">>, <<"s","e","l","e","c","t","i","o","n">>, <<"S","E","L","E","C","T"," ","*"," ","F","R","O","M"," ","p","e","r","s","o","n","s">>, <<"S","E","L","E","C","T"," ","F","R","O","M"," ","p","e","o","p","l","e">>,
          <<" ","\n","S","e","l","e","c","t"," ","c","i","t","y","\n","F","r","o","m"," ","P","e","o","p","l","e","\n","W","h","e","r","e"," ","c","i","t","y"," ","="," ","'","m","e","s","a","'","\n","L","i","m","i","t"," ","1"," ",";">>,
          <<"S","E","L","E","C","T"," ","*"," ","F","R","O","M"," ","p","e","o","p","l","e"," ","W","H","E","R","E">>, <<"S","E","L","E","C","T"," ","c","i","t","y"," ","F","R","O","M"," ","p","e","o","p","l","e"," ","L","I","M","I","T"," ","1"," ","L","I","M","I","T"," ","2">>,
          <<"S","E","L","E","C","T"," ","*"," ","F","R","O","M"," ","p","e","o","p","l","e"," ","W","H","E","R","E"," ","c","i","t","y"," ","="," ","'","M","e","s","a","'"," ","L","I","M","I","T"," ","1"," ","L","I","M","I","T"," ","0">>}

Queries == EmptyQueries \cup FreeQueries \cup GqlQueries \cup SqlQueries

(***************************************************************************)
(* The page: the text area, the Run Query button and what the page shows.  *)
(***************************************************************************)
\* nothing shown below the button
Blank == [kind |-> "none", label |-> "", found |-> 0, rows |-> <<>>, cols |-> <<>>, msg |-> ""]

\* st.error(f"Error: {e}"), after the entry count when it had been written
ShowError(label, found, msg) ==
    [kind |-> "error", label |-> label, found |-> found, rows |-> <<>>, cols |-> <<>>, msg |-> msg]

\* st.write(f"... Found {len(filt)} entries") and st.dataframe(...)
ShowTable(label, rows, cols) ==
    [kind |-> "table", label |-> label, found |-> Len(rows), rows |-> rows, cols |-> cols, msg |-> ""]

\* st.info("Enter a search query above to filter data.")
ShowInfo == [kind |-> "info", label |-> "", found |-> 0, rows |-> <<>>, cols |-> <<>>, msg |-> ""]

\* the body of a try block of the handler: the entry count is written, filt[sel]
\* raises KeyError for a selected column the table does not have, and any
\* exception is shown as an error
TryShow(label, r) ==
    IF r.raised THEN ShowError("", 0, r.msg)
    ELSE IF \E i \in 1..Len(r.sel) : r.sel[i] \notin Range(Columns)
    THEN ShowError(label, Len(r.filt), "KeyError")
    ELSE ShowTable(label, r.filt, r.sel)

\* Dispatch without the strip() of the query
Dispatch_NoStrip(q) == IF q = <<>> THEN "prompt"
                       ELSE IF StartsWith(q, <<"{">>) THEN "parse_graphql_query"
                       ELSE IF StartsWith(Upper(q), <<"S","E","L","E","C","T">>) THEN "parse_sql_query"
                       ELSE "filter_data_by_query"

\* which branch of the handler a query takes
Dispatch(q) == IF q = <<>> THEN "prompt"
               ELSE IF StartsWith(Strip(q), <<"{">>) THEN "parse_graphql_query"
               ELSE IF StartsWith(Upper(Strip(q)), <<"S","E","L","E","C","T">>) THEN "parse_sql_query"
               ELSE "filter_data_by_query"

\* the handler's call of the engine it dispatched to, and what it then shows
RunEngine(to, r) == /\ calls' = <<to>>
                    /\ out' = TryShow(IF to = "parse_graphql_query" THEN "GraphQL Query" ELSE "SQL Query", r)
                    /\ warnings' = r.warned

\* the geocoding script is not running
NoRow == [zip |-> <<>>, address |-> <<>>, address2 |-> <<>>, city |-> <<>>, state |-> <<>>]

\* no query has been submitted in this session
NotSeen == [runs |-> 0, failed |-> FALSE, query |-> <<>>, df |-> <<>>, out |-> Blank]

Init == /\ df \in Datasets
        /\ query = <<>>
        /\ clicked = FALSE
        /\ calls = <<>>
        /\ out = Blank
        /\ warnings = <<>>
        /\ seen = NotSeen
        /\ geo_row = NoRow /\ pc = "idle" /\ variant = 0 /\ attempt = 0
        /\ slept = <<>> /\ lookups = 0 /\ tried = <<>> /\ coords = <<>>

\* the script reruns with the button not pressed and the text area holding a query of Q
EditPage(Q) == /\ \E q \in Q : query' = q
               /\ clicked' = FALSE
               /\ calls' = <<>>
               /\ out' = Blank
               /\ warnings' = <<>>
               /\ UNCHANGED df

\* the user edits the text area
EditQuery == EditPage(Queries) /\ UNCHANGED <<seen, geo>>

\* RunPage with parsers that filter the table in place
RunPage_InPlace ==
    /\ clicked' = TRUE
    /\ LET to == Dispatch(query)
       IN  CASE to = "parse_graphql_query" -> RunEngine(to, parse_graphql_query(query, df))
             [] to = "parse_sql_query" -> RunEngine(to, parse_sql_query(query, df))
             [] to = "filter_data_by_query" ->
                  /\ calls' = <<to>>
                  /\ out' = ShowTable("", filter_data_by_query(df, query), Columns)
                  /\ warnings' = <<>>
             [] OTHER ->
                  /\ calls' = <<>>
                  /\ out' = ShowInfo
                  /\ warnings' = <<>>
    /\ df' = IF calls' \in {<<"parse_graphql_query">>, <<"parse_sql_query">>} /\ out'.kind = "table"
             THEN [i \in 1..Len(out'.rows) |-> df[out'.rows[i]]]
             ELSE df
    /\ UNCHANGED query

\* the script reruns with the button pressed: the handler of Run Query
RunPage ==
    /\ clicked' = TRUE
    /\ LET to == Dispatch(query)
       IN  CASE to = "parse_graphql_query" -> RunEngine(to, parse_graphql_query(query, df))
             [] to = "parse_sql_query" -> RunEngine(to, parse_sql_query(query, df))
             [] to = "filter_data_by_query" ->
                  /\ calls' = <<to>>
                  /\ out' = ShowTable("", filter_data_by_query(df, query), Columns)
                  /\ warnings' = <<>>
             [] OTHER ->
                  /\ calls' = <<>>
                  /\ out' = ShowInfo
                  /\ warnings' = <<>>
    /\ UNCHANGED <<df, query>>

\* the user presses Run Query
RunQuery == RunPage /\ UNCHANGED <<seen, geo>>

Next == EditQuery \/ RunQuery

Spec == Init /\ [][Next]_vars

(***************************************************************************)
(* A session of repeated submissions.  seen remembers the first submission *)
(* of the session (the query, the table it ran on and what it showed), how *)
(* many submissions followed it and whether one of them failed.            *)
(***************************************************************************)
SessionQueries ==
    {<<>>, <<"j","o","h","n">>, <<"z","z","z">>, <<"{"," ","p","e","o","p","l","e","(","w","h","e","r","e",":"," ","{","c","i","t","y","_","s","t","a","r","t","s","W","i","t","h",":"," ","\"","m","e","\"","}",")"," ","{","f","i","r","s","t","N","a","m","e"," ","c","i","t","y","}"," ","}">>,
     <<"{"," ","p","e","o","p","l","e","(","w","h","e","r","e",":"," ","{","f","i","r","s","t","N","a","m","e",":"," ","\"","J","o","h","n","\"","}",")"," ","{","b","o","g","u","s","}"," ","}">>, <<"{"," ","p","e","o","p","l","e"," ","}">>,
     <<"s","e","l","e","c","t"," ","*"," ","f","r","o","m"," ","p","e","o","p","l","e"," ","W","H","E","R","E"," ","c","i","t","y"," ","="," ","'","M","e","s","a","'">>, <<"s","e","l","e","c","t"," ","c","i","t","y"," ","f","r","o","m"," ","p","e","o","p","l","e"," ","W","H","E","R","E"," ","c","i","t","y"," ","L","I","K","E"," ","'","%","a","%","'"," ","L","I","M","I","T"," ","1">>,
     <<"s","e","l","e","c","t"," ","*"," ","f","r","o","m"," ","p","e","o","p","l","e"," ","W","H","E","R","E"," ","c","i","t","y"," ","L","I","K","E"," ","'","%","(","%","'">>, <<"s","e","l","e","c","t"," ","*"," ","f","r","o","m"," ","p","e","o","p","l","e"," ","W","H","E","R","E"," ","b","a","d","c","o","n","d","i","t","i","o","n">>,
     <<"S","E","L","E","C","T"," ","F","R","O","M"," ","p","e","o","p","l","e">>}

\* the user edits the text area during the session
EditAgain == EditPage(SessionQueries) /\ UNCHANGED <<seen, geo>>

\* the user presses Run Query during the session
RunAgain ==
    /\ seen.runs < MaxRuns
    /\ RunPage
    /\ seen' = IF seen = NotSeen /\ query # <<>>
               THEN [runs |-> 0, failed |-> FALSE, query |-> query, df |-> df, out |-> out']
               ELSE IF seen = NotSeen THEN seen
               ELSE [seen EXCEPT !.runs = @ + 1, !.failed = @ \/ out'.kind = "error"]
    /\ UNCHANGED geo

NextSession == EditAgain \/ RunAgain

SpecSession == Init /\ [][NextSession]_vars

(***************************************************************************)
(* The geocoding script (geosample_load.py): get_coords on one row of the  *)
(* table.  Coordinates are in millionths of a degree; None is <<>>.  A     *)
(* cell is the text str() gives for it, "nan" for a missing one.           *)
(***************************************************************************)
\* the defaults of attempt_geocode
max_retries == 5
retry_delay == 2

AZ_BOUNDS == [lat |-> <<31332177, 37004261>>, lon |-> <<-114818169, -109045223>>]

\* float(text) for the texts of the model: surrounding whitespace and a leading
\* minus sign allowed, then nan, inf, infinity in any letter case or digits with
\* an optional decimal point; whole is the value truncated toward zero
FloatOf(text) ==
    LET Invalid       == [kind |-> "invalid", whole |-> 0]
        Digits(w, f)  == IF Len(w) + Len(f) > 0 /\ ~IntRaises(w) /\ ~IntRaises(f)
                         THEN [kind |-> "finite", whole |-> ParseInt(w)] ELSE Invalid
        Decimal(t, d) == IF d = 0 THEN Digits(t, <<>>) ELSE Digits(Sub(t, 1, d - 1), Sub(t, d + 1, Len(t)))
        Unsigned(t)   == IF Lower(t) = <<"n","a","n">> THEN [kind |-> "nan", whole |-> 0]
                         ELSE IF Lower(t) \in {<<"i","n","f">>, <<"i","n","f","i","n","i","t","y">>} THEN [kind |-> "inf", whole |-> 0]
                         ELSE Decimal(t, FindChar(t, 1, "."))
        Negated(f)    == [f EXCEPT !.whole = 0 - @]
        Signed(t)     == IF Len(t) > 0 /\ t[1] = "-" THEN Negated(Unsigned(Tail(t))) ELSE Unsigned(t)
    IN  Signed(Strip(text))

\* f"{zip_int:05d}": zero-padded to five characters, the sign included
RECURSIVE ZeroPad(_, _)
ZeroPad(digits, width) == IF Len(digits) >= width THEN digits ELSE ZeroPad(<<"0">> \o digits, width)

Format05d(n) == IF n < 0 THEN <<"-">> \o ZeroPad(IntToStr(0 - n), 4) ELSE ZeroPad(IntToStr(n), 5)

\* clean_zip_code: float() raising ValueError and int(nan) raising ValueError are
\* caught and give ""; int(inf) raises OverflowError, which is not caught
clean_zip_code(zip_code) ==
    LET Of(f) == IF f.kind = "inf" THEN [raised |-> TRUE, zip |-> <<>>]
                 ELSE IF f.kind = "finite" THEN [raised |-> FALSE, zip |-> Format05d(f.whole)]
                 ELSE [raised |-> FALSE, zip |-> <<>>]
    IN  Of(FloatOf(zip_code))

\* clean_address_component
clean_address_component(component) == IF Lower(component) = <<"n","a","n">> THEN <<>> ELSE Strip(component)

\* is_in_arizona
is_in_arizona(c) ==
    /\ c # <<>>
    /\ AZ_BOUNDS.lat[1] <= c[1] /\ c[1] <= AZ_BOUNDS.lat[2]
    /\ AZ_BOUNDS.lon[1] <= c[2] /\ c[2] <= AZ_BOUNDS.lon[2]

\* the four addresses get_coords may geocode, finest first: the full address, street
\* and city, the city, the zip code; <<>> for a variant the row gives no cause to try
Addresses(r) ==
    LET Built(street, street2, city, state, zip_code) ==
            << Join(<<","," ">>, NonEmpty(<<street, street2, city, state, zip_code, <<"U","S","A">>>>)),
               IF street # <<>> /\ city # <<>>
               THEN Join(<<","," ">>, <<street, city, state, zip_code, <<"U","S","A">>>>) ELSE <<>>,
               IF city # <<>> THEN Join(<<","," ">>, <<city, state, zip_code, <<"U","S","A">>>>) ELSE <<>>,
               Join(<<","," ">>, <<zip_code, state, <<"U","S","A">>>>) >>
    IN  Built(clean_address_component(r.address), clean_address_component(r.address2),
              clean_address_component(r.city), clean_address_component(r.state),
              clean_zip_code(r.zip).zip)

\* the variant get_coords goes on to after variant v, 0 after the last
NextVariant(r, v) ==
    LET Later(S) == IF S = {} THEN 0 ELSE Least(S)
    IN  Later({w \in (v + 1)..4 : Addresses(r)[w] # <<>>})

\* SleepTime growing by retry_delay instead of doubling
SleepTime_Linear(n) == retry_delay * n

\* sleep_time of the retry whose loop index is n
SleepTime(n) == retry_delay * (2 ^ (n - 1))

\* the rows of the table handed to get_coords
ZipTexts == {<<"8","5","0","0","1",".","0">>, <<"8","5","0","1">>, <<"n","a","n">>, <<"8","5","2","8","1","-","1","2","3","4">>, <<>>, <<"i","n","f">>}

GeoRows == [zip : ZipTexts, address : {<<"1"," ","M","a","i","n">>, <<"n","a","n">>}, address2 : {<<"n","a","n">>, <<" ","A","p","t"," ","2">>},
            city : {<<"M","e","s","a">>, <<"n","a","n">>}, state : {<<"A","Z">>}]

\* what the geocoding service may answer with: a point inside the box, its
\* south-east corner, a point just south of it, a point far to the east
Locations == { <<33448376, -112074036>>, <<31332177, -109045223>>,
               <<31332176, -112074036>>, <<40712800, -74006000>> }

InitGeo == /\ df = <<>> /\ query = <<>> /\ clicked = FALSE /\ calls = <<>>
           /\ out = Blank /\ warnings = <<>> /\ seen = NotSeen
           /\ geo_row \in GeoRows
           /\ pc = "get_coords"
           /\ variant = 0 /\ attempt = 0 /\ slept = <<>> /\ lookups = 0
           /\ tried = <<>> /\ coords = <<>>

\* attempt_geocode is entered for variant v
Enter(v) == /\ pc' = "attempt_geocode"
            /\ variant' = v
            /\ attempt' = 0 /\ slept' = <<>> /\ lookups' = 0
            /\ coords' = <<>>

\* get_coords returns c
Return(c) == /\ pc' = "returned"
             /\ coords' = c
             /\ lookups' = 0
             /\ UNCHANGED <<variant, attempt, slept>>

\* get_coords without the test of the cleaned zip code
GetCoords_NoZipCheck ==
    /\ pc = "get_coords"
    /\ IF clean_zip_code(geo_row.zip).raised
       THEN pc' = "raised" /\ UNCHANGED <<variant, attempt, slept, lookups, coords>>
       ELSE Enter(1)
    /\ UNCHANGED <<geo_row, tried, page>>

\* get_coords up to its first call of attempt_geocode
GetCoords ==
    /\ pc = "get_coords"
    /\ IF clean_zip_code(geo_row.zip).raised
       THEN pc' = "raised" /\ UNCHANGED <<variant, attempt, slept, lookups, coords>>
       ELSE IF clean_zip_code(geo_row.zip).zip = <<>>
       THEN Return(<<>>)
       ELSE Enter(1)
    /\ UNCHANGED <<geo_row, tried, page>>

\* time.sleep(sleep_time) at the top of a retry
Sleep ==
    /\ pc = "attempt_geocode"
    /\ attempt > 0 /\ Len(slept) < attempt
    /\ slept' = Append(slept, SleepTime(attempt))
    /\ UNCHANGED <<geo_row, pc, variant, attempt, lookups, tried, coords, page>>

\* attempt_geocode has returned found: get_coords returns it when it lies in the
\* box, and goes on to the next variant or returns None when it does not
Geocoded(found) ==
    /\ tried' = Append(tried, [variant |-> variant, address |-> Addresses(geo_row)[variant],
                               lookups |-> lookups + 1, slept |-> slept, found |-> found])
    /\ IF found # <<>> /\ is_in_arizona(found) THEN Return(found)
       ELSE IF NextVariant(geo_row, variant) = 0 THEN Return(<<>>)
       ELSE Enter(NextVariant(geo_row, variant))

\* geolocator.geocode(address) and what follows it up to the next sleep or lookup:
\* the service answers with a location, answers with nothing, is unavailable or
\* times out, or fails with an error attempt_geocode does not catch
Lookup ==
    /\ pc = "attempt_geocode"
    /\ Len(slept) = attempt
    /\ \/ \E loc \in Locations : Geocoded(loc)
       \/ /\ attempt + 1 < max_retries
          /\ attempt' = attempt + 1
          /\ lookups' = lookups + 1
          /\ UNCHANGED <<pc, variant, slept, tried, coords>>
       \/ /\ attempt + 1 = max_retries
          /\ Geocoded(<<>>)
       \/ /\ pc' = "raised"
          /\ lookups' = lookups + 1
          /\ UNCHANGED <<variant, attempt, slept, tried, coords>>
    /\ UNCHANGED <<geo_row, page>>

NextGeo == GetCoords \/ Sleep \/ Lookup

SpecGeo == InitGeo /\ [][NextGeo]_vars

(***************************************************************************)
(* Properties.                                                             *)
(***************************************************************************)
\* the query, after leading whitespace, begins with word in either letter case
LeadsWith(q, word) ==
    \E i \in 1..Len(q) : /\ \A k \in 1..(i - 1) : IsSpace(q[k])
                         /\ i + Len(word) - 1 <= Len(q)
                         /\ \A k \in 1..Len(word) : q[i + k - 1] \in {word[k], LowerOf[word[k]]}

\* C1: a click on Run Query with a non-empty query invokes exactly one engine: the
\* GraphQL parser when the trimmed query starts with `{`, else the SQL parser when
\* it starts with SELECT in any letter case, else the free-text matcher.
C1_ExactlyOneEngine ==
    (clicked /\ query # <<>>) =>
        calls = << IF LeadsWith(query, <<"{">>) THEN "parse_graphql_query"
                   ELSE IF LeadsWith(query, <<"S","E","L","E","C","T">>) THEN "parse_sql_query"
                   ELSE "filter_data_by_query" >>

\* C1: a query with leading whitespace was routed to the GraphQL parser
C1_Witness == /\ clicked /\ query # <<>> /\ IsSpace(query[1])
              /\ calls = <<"parse_graphql_query">>

\* C2: a click with an empty or whitespace-only query invokes no engine and shows
\* only the prompt.
C2_BlankRunsNothing ==
    (clicked /\ \A i \in 1..Len(query) : IsSpace(query[i])) => (calls = <<>> /\ out.kind = "info")

InvalidLimit == "Invalid limit value, ignoring limit."

kLimitAbc == <<" ","L","I","M","I","T"," ","a","b","c">>

\* C3: an otherwise well-formed SQL query followed by LIMIT abc still executes,
\* warns of the invalid limit, and shows the full WHERE-filtered rows.
C3_NonNumericLimitIgnored ==
    LET Holds(base) ==
            ~base.raised =>
                /\ out.kind = "table"
                /\ out.rows = base.filt
                /\ \E i \in 1..Len(warnings) : warnings[i].kind = InvalidLimit
    IN  (clicked /\ EndsWith(query, kLimitAbc)) =>
            Holds(parse_sql_query(Sub(query, 1, Len(query) - Len(kLimitAbc)), df))

\* the column a field name stands for when names are matched ignoring letter case
\* against the aliases and, with spaces and hyphens stripped, against the column
\* names; the empty string when there is none
Stripped(name) == Remove(Remove(Lower(name), " "), "-")

ColumnOf(name, aliases) ==
    LET hits == {i \in 1..Len(Columns) :
                    \/ \E a \in 1..Len(aliases) : aliases[a][2] = Columns[i] /\ Lower(aliases[a][1]) = Lower(name)
                    \/ Stripped(Columns[i]) = Stripped(name)}
    IN  IF hits = {} THEN <<>> ELSE Columns[Least(hits)]

\* the field names a structured query selects
GqlRequested(q) == Split(GqlSearch(Normalize(q)).sel)

SqlRequested(q) ==
    LET Names(cols) == [i \in 1..Len(cols) |-> Strip(cols[i])]
    IN  Names(SplitOn(Strip(SqlSearch(Normalize(q)).cols), ","))

\* C4: when every selected field names a column through an alias in any letter case
\* or through the normalized column name, the columns shown are those columns, in
\* both structured parsers.
C4_NamesResolveAnyCase ==
    LET Holds(names, aliases) ==
            (names # <<>> /\ \A i \in 1..Len(names) : ColumnOf(names[i], aliases) # <<>>) =>
                out.cols = [i \in 1..Len(names) |-> ColumnOf(names[i], aliases)]
    IN  (clicked /\ out.kind = "table") =>
            /\ calls = <<"parse_graphql_query">> => Holds(GqlRequested(query), gql2df)
            /\ calls = <<"parse_sql_query">> => Holds(SqlRequested(query), sql2df)

\* a segment that is exactly field (=|LIKE) 'value'
HasShape(seg) == /\ SqlCondMatch(seg).ok
                 /\ seg[Len(seg)] = "'"
                 /\ Cardinality({i \in 1..Len(seg) : seg[i] = "'"}) = 2

\* LIKE 'p' read literally, ignoring letter case: containment for %x%, prefix for
\* x%, suffix for %x, equality otherwise
LikeLiteral(cell, p) ==
    LET t == Lower(cell)
        v == Lower(p)
    IN  IF Len(v) >= 2 /\ v[1] = "%" /\ v[Len(v)] = "%" THEN Contains(t, Sub(v, 2, Len(v) - 1))
        ELSE IF v[Len(v)] = "%" THEN StartsWith(t, Sub(v, 1, Len(v) - 1))
        ELSE IF v[1] = "%" THEN EndsWith(t, Sub(v, 2, Len(v)))
        ELSE t = v

\* C5: a SQL query whose WHERE clause is one condition field LIKE 'p' on a
\* resolvable field shows exactly the rows whose cell matches p read literally.
C5_LikeIsLiteral ==
    LET Cond(m) ==
            (Upper(m.op) = <<"L","I","K","E">> /\ SqlResolve(m.field) # <<>>) =>
                /\ out.kind = "table"
                /\ \A r \in 1..Len(df) :
                      (r \in Range(out.rows)) <=> LikeLiteral(Cell(df, r, SqlResolve(m.field)), m.value)
        Segs(conds) == (Len(conds) = 1 /\ HasShape(conds[1])) => Cond(SqlCondMatch(conds[1]))
        Parsed(m)   == (m.found /\ m.limit = <<>>) => Segs(SqlConds(Strip(m.where)))
    IN  (clicked /\ calls = <<"parse_sql_query">>) => Parsed(SqlSearch(Normalize(query)))

\* the maximal runs of non-whitespace characters of q, as pairs of positions
TokenSpans(q) ==
    {<<i, j>> \in (1..Len(q)) \X (1..Len(q)) :
        /\ i <= j
        /\ \A k \in i..j : ~IsSpace(q[k])
        /\ (i = 1 \/ IsSpace(q[i - 1]))
        /\ (j = Len(q) \/ IsSpace(q[j + 1]))}

\* the cells of a row joined by single spaces, in column order
RECURSIVE Serialized(_, _)
Serialized(row, n) == IF n = 0 THEN <<>>
                      ELSE IF n = 1 THEN row[1]
                      ELSE Serialized(row, n - 1) \o <<" ">> \o row[n]

IsSubstring(t, s) == \E k \in 0..(Len(s) - Len(t)) : \A i \in 1..Len(t) : s[k + i] = t[i]

Increasing(rows) == \A i \in 1..(Len(rows) - 1) : rows[i] < rows[i + 1]

\* C6: the free-text matcher shows exactly the rows whose lower-cased serialization
\* holds every whitespace-separated token of the lower-cased query, in row order.
C6_FreeTextAllTokens ==
    (clicked /\ calls = <<"filter_data_by_query">>) =>
        /\ out.kind = "table"
        /\ Increasing(out.rows)
        /\ \A r \in 1..Len(df) :
              (r \in Range(out.rows)) <=>
                  \A sp \in TokenSpans(query) :
                      IsSubstring(Lower(Sub(query, sp[1], sp[2])), Lower(Serialized(df[r], Len(Columns))))

\* C6: a query of two tokens kept some rows and dropped others
C6_Witness == /\ clicked /\ calls = <<"filter_data_by_query">>
              /\ Cardinality(TokenSpans(query)) >= 2
              /\ Len(out.rows) > 0 /\ Len(out.rows) < Len(df)

\* the ways the model writes LIMIT n at the end of a query
LimitSuffixes(n) == {<<" ","L","I","M","I","T"," ">> \o IntToStr(n), <<" ","l","i","m","i","t"," ","0">> \o IntToStr(n), <<"\n","L","i","m","i","t"," ">> \o IntToStr(n) \o <<" ",";">>}

\* the first n entries of a sequence, all of it when it has fewer
FirstN(rows, n) == [i \in 1..(IF n < Len(rows) THEN n ELSE Len(rows)) |-> rows[i]]

\* C7: a SQL query ending in LIMIT n shows the first min(n, |filtered|) rows of what
\* the same query without the LIMIT clause returns, in row order.
C7_LimitAfterFilter ==
    LET Holds(n, base) ==
            (~base.raised /\ out.kind = "table") => out.rows = FirstN(base.filt, n)
        NoLimit(n, b) == SqlSearch(Normalize(b)).limit = <<>> => Holds(n, parse_sql_query(b, df))
    IN  (clicked /\ calls = <<"parse_sql_query">>) =>
            \A n \in 0..MaxLimit : \A sfx \in LimitSuffixes(n) :
                EndsWith(query, sfx) => NoLimit(n, Sub(query, 1, Len(query) - Len(sfx)))

FormatErrors == {"GraphQL query format not recognized.", "SQL query format not recognized."}

\* C8: a structured query that does not match its grammar skeleton is answered by
\* one format error: no rows, no columns, no entry count, no other engine.
C8_FormatErrorShown ==
    LET Failed(msg) == /\ out = [kind |-> "error", label |-> "", found |-> 0, rows |-> <<>>, cols |-> <<>>, msg |-> msg]
                       /\ Len(calls) = 1
                       /\ warnings = <<>>
    IN  clicked =>
            /\ (calls = <<"parse_graphql_query">> /\ ~GqlSearch(Normalize(query)).found)
                  => Failed("GraphQL query format not recognized.")
            /\ (calls = <<"parse_sql_query">> /\ ~SqlSearch(Normalize(query)).found)
                  => Failed("SQL query format not recognized.")

\* C8: a SELECT-prefixed query without the skeleton was answered by the format error
C8_Witness == /\ clicked /\ calls = <<"parse_sql_query">>
              /\ out.kind = "error" /\ out.msg = "SQL query format not recognized."

\* cols holds the entries of resolved that are not empty, in order, or all the
\* columns when there is none
KeepsResolved(cols, resolved) ==
    LET idx == {i \in 1..Len(resolved) : resolved[i] # <<>>}
    IN  IF idx = {} THEN cols = Columns
        ELSE /\ Len(cols) = Cardinality(idx)
             /\ \A i \in idx : cols[Cardinality({j \in idx : j <= i})] = resolved[i]

C10_InvalidSegmentsSkipped ==
    LET Valid(conds) == [i \in 1..Len(conds) |->
                            IF HasShape(conds[i]) THEN SqlCondMatch(conds[i])
                            ELSE [ok |-> FALSE, field |-> <<>>, op |-> <<>>, value |-> <<>>]]
        Holds(conds, ms) ==
            /\ out.kind = "table"
            /\ warnings = SqlCondWarnings(conds, ms)
            /\ out.rows = Keep(df, AndMasks(df, [i \in 1..Len(ms) |-> SqlCondMask(df, ms[i])]))
        Segs(conds) == Holds(conds, Valid(conds))
        Parsed(m)   == (m.found /\ m.limit = <<>>) => Segs(SqlConds(Strip(m.where)))
    IN  (clicked /\ calls = <<"parse_sql_query">>) => Parsed(SqlSearch(Normalize(query)))

\* a condition as it is written at position i of a where block, name : "value":
\* the position after it (0 when none is written there), its name and its value
WrittenCondAt(s, i) ==
    LET None           == [end |-> 0, name |-> <<>>, value |-> <<>>]
        Quoted(e, a, z) == IF a <= Len(s) /\ s[a] = "\"" /\ z > 0
                           THEN [end |-> z + 1, name |-> Sub(s, i, e), value |-> Sub(s, a + 1, z - 1)]
                           ELSE None
        Opened(e, a)   == Quoted(e, a, FindChar(s, a + 1, "\""))
        Colon(e, p)    == IF p <= Len(s) /\ s[p] = ":" THEN Opened(e, SkipSpaces(s, p + 1)) ELSE None
        Named(e)       == IF i <= Len(s) /\ e >= i THEN Colon(e, SkipSpaces(s, e + 1)) ELSE None
    IN  Named(WordEnd(s, i))

\* the conditions written in a where block, separated by commas or whitespace; the
\* list ends with an entry whose end is 0 when the block holds anything else
RECURSIVE WrittenConds(_, _)
WrittenConds(s, pos) ==
    LET Rest(c) == IF c.end = 0 THEN <<c>> ELSE <<c>> \o WrittenConds(s, c.end)
        At(p)   == IF p = 0 THEN <<>> ELSE Rest(WrittenCondAt(s, p))
        Skip(S) == IF S = {} THEN 0 ELSE Least(S)
    IN  At(Skip({k \in pos..Len(s) : ~IsSpace(s[k]) /\ s[k] # ","}))

\* two texts are equal up to letter case
SameText(a, b) == Len(a) = Len(b) /\ \A k \in 1..Len(a) : LowerOf[a[k]] = LowerOf[b[k]]

\* row r satisfies the written condition c: a prefix match for a name ending in
\* _startsWith, equality otherwise; nothing is asked when the field does not resolve
CondHolds(d, r, c) ==
    LET Prefix(cell)  == Len(c.value) <= Len(cell) /\ SameText(Sub(cell, 1, Len(c.value)), c.value)
        On(col, pre)  == \/ col = <<>>
                         \/ IF pre THEN Prefix(Cell(d, r, col)) ELSE SameText(Cell(d, r, col), c.value)
        Base(pre)     == On(GqlResolve(IF pre THEN Sub(c.name, 1, Len(c.name) - Len(kStartsWith)) ELSE c.name), pre)
    IN  Base(EndsWith(c.name, kStartsWith))

\* C11: for a well-formed GraphQL query the rows shown are exactly the rows of the
\* table, in row order, that satisfy every written condition whose field resolves
\* (prefix match for name_startsWith, equality otherwise, both ignoring letter case).
C11_GraphQLRows ==
    LET Rows(conds)  == /\ out.kind = "table"
                        /\ Increasing(out.rows)
                        /\ \A r \in 1..Len(df) :
                              (r \in Range(out.rows)) <=> \A i \in 1..Len(conds) : CondHolds(df, r, conds[i])
        Well(conds)  == (\A i \in 1..Len(conds) : conds[i].end > 0) => Rows(conds)
        Found(m)     == m.found => Well(WrittenConds(m.cond, 1))
    IN  (clicked /\ calls = <<"parse_graphql_query">>) => Found(GqlSearch(query))

Waits == <<2, 4, 8, 16>>

\* C13: attempt_geocode ends after at most 5 lookups: it returns at the first lookup
\* that yields a location, it waits 2, 4, 8, 16 seconds before the second to fifth
\* lookup and not before the first, and it returns None only after the fifth.  The
\* call under way has made fewer than 5 lookups, all of them in vain; each call
\* that has returned made its last lookup within the 5.
C13_BoundedBackoff ==
    /\ pc = "attempt_geocode" =>
          /\ lookups < 5
          /\ Len(slept) \in {lookups - 1, lookups} \cap (0..4)
          /\ slept = FirstN(Waits, Len(slept))
    /\ \A i \in 1..Len(tried) :
          /\ tried[i].lookups \in 1..5
          /\ tried[i].slept = FirstN(Waits, tried[i].lookups - 1)
          /\ tried[i].found = <<>> => tried[i].lookups = 5

\* C13: one address was given up after five lookups and four waits, and a later one
\* was found at its third lookup
C13_Witness ==
    \E i, j \in 1..Len(tried) :
        /\ i < j
        /\ tried[i].found = <<>> /\ tried[i].lookups = 5 /\ tried[i].slept = Waits
        /\ tried[j].found # <<>> /\ tried[j].lookups = 3 /\ tried[j].slept = <<2, 4>>

\* a result that ends the search: coordinates inside the Arizona bounding box
InBox(c) == /\ c # <<>>
            /\ c[1] >= AZ_BOUNDS.lat[1] /\ c[1] <= AZ_BOUNDS.lat[2]
            /\ c[2] >= AZ_BOUNDS.lon[1] /\ c[2] <= AZ_BOUNDS.lon[2]

\* the variants the row has an address for that are finer than variant v
Finer(v) == {w \in 1..(v - 1) : Addresses(geo_row)[w] # <<>>}

\* C14: get_coords tries the full address, street and city, the city and the zip
\* code in this order; a variant is tried only after every finer one has given
\* nothing or a point outside the box; the first point inside the box is returned,
\* and None only after the zip code has been tried in vain; no point outside the
\* box is ever returned.
C14_CoarserOnlyAfterFiner ==
    /\ \A i \in 1..Len(tried) :
          /\ \A j \in (i + 1)..Len(tried) : tried[i].variant < tried[j].variant
          /\ Finer(tried[i].variant) = {tried[j].variant : j \in 1..(i - 1)}
          /\ i < Len(tried) => ~InBox(tried[i].found)
    /\ pc = "attempt_geocode" =>
          /\ Finer(variant) = {tried[j].variant : j \in 1..Len(tried)}
          /\ \A i \in 1..Len(tried) : ~InBox(tried[i].found)
    /\ (pc = "returned" /\ coords # <<>>) =>
          /\ InBox(coords)
          /\ tried # <<>> /\ coords = tried[Len(tried)].found
    /\ (pc = "returned" /\ coords = <<>>) =>
          /\ tried # <<>>
          /\ tried[Len(tried)].variant = 4 /\ ~InBox(tried[Len(tried)].found)

\* C15: when clean_zip_code gives the empty string for the row's zip code,
\* get_coords returns None at once, with no lookup and no wait for any variant,
\* whatever the street, city and state.
C15_BadZipNoLookup ==
    (pc # "get_coords" /\ ~clean_zip_code(geo_row.zip).raised /\ clean_zip_code(geo_row.zip).zip = <<>>) =>
        /\ pc = "returned" /\ coords = <<>>
        /\ tried = <<>> /\ lookups = 0 /\ slept = <<>> /\ variant = 0

\* C15: get_coords has returned for a row with street, city and state whose zip
\* code is written with a four-digit extension
C15_Witness ==
    /\ pc = "returned" /\ coords = <<>> /\ tried = <<>>
    /\ geo_row.zip = <<"8","5","2","8","1","-","1","2","3","4">>
    /\ clean_address_component(geo_row.address) # <<>>
    /\ clean_address_component(geo_row.city) # <<>>
    /\ clean_address_component(geo_row.state) # <<>>

====
